---- MODULE Spec2Model ----
(***************************************************************************)
(* The live session pipeline of src/components/VideoPlayer.tsx: the        *)
(* connect/disconnect lifecycle of the AI companion, the resources it      *)
(* holds in refs, the callbacks of the remote session, and the playback    *)
(* scheduler of onmessage.                                                 *)
(*                                                                         *)
(* Every call of connect() that passes its guard is an "attempt" with an   *)
(* id 1, 2, ...  The objects an attempt creates (output AudioContext,      *)
(* MediaStream, input AudioContext, frame interval, remote session) are    *)
(* named by the attempt's id; a ref holds an id, or 0 for null.            *)
(***************************************************************************)
EXTENDS Integers, FiniteSets, Sequences, TLC

\* ------------------------------------------------------------------ bounds
MaxConnects == 2        \* connect() calls that pass the guard, lifecycle runs
MaxMsgs == 2            \* messages the remote session delivers
MaxClock == 3           \* ticks of the output context's clock
MaxCatalog == 3         \* items of a catalog
MaxSamples == 3         \* samples of a block
MaxDur == 2             \* longest chunk, in clock ticks

Attempts == 1..MaxConnects
Msgs == 1..MaxMsgs

VARIABLES
  isSidebarOpen,      \* useState, line 110
  isConnecting,       \* useState, line 111 (latest value set)
  connected,          \* useState, line 112 (latest value set)
  micActive,          \* useState, line 113 (latest value set)
  rendered,           \* the values of connected / isConnecting the closures of
                      \* the last committed render captured
  mounted,            \* the component is mounted
  audioContextRef,    \* refs, lines 121-127: an attempt id, 0 = null
  inputContextRef,
  sessionRef,
  streamRef,
  videoIntervalRef,
  nextStartTimeRef,   \* the scheduling cursor
  sourcesRef,         \* set of scheduled sources (message ids)
  nAttempts,          \* connect() calls that passed the guard so far
  pc,                 \* where each attempt's connect() stands
  outCtx, inCtx, stream, timer,   \* the objects each attempt created
  session,            \* the remote session of each attempt
  clock,              \* currentTime of the output context in audioContextRef
  ctxSuspended,       \* that context's state is 'suspended'
  handlers,           \* onmessage invocations suspended at await resume()
  nMsgs,              \* messages delivered so far
  stopped,            \* sources force-stopped by stop()
  sched,              \* history: the chunks scheduled, in scheduling order
  epoch,              \* history: cursor resets (connect, interruption) so far
  lastOp,             \* history: the operation that ran last
  queue,              \* payloads waiting on each attempt's sessionPromise.then
  video, allVideos,   \* props, lines 103-104: the item played and the catalog
  recs,               \* the memo of lines 130-140: upNext and moreVideos
  codec               \* a block of samples on its way through lines 27-68

refVars == <<audioContextRef, inputContextRef, sessionRef, streamRef,
             videoIntervalRef>>
flagVars == <<isConnecting, connected, micActive>>
objVars == <<outCtx, inCtx, stream, timer>>
playVars == <<clock, ctxSuspended, handlers, nMsgs, stopped, sched, epoch>>
playerVars == <<isSidebarOpen, isConnecting, connected, micActive, rendered, mounted,
          audioContextRef, inputContextRef, sessionRef, streamRef,
          videoIntervalRef, nextStartTimeRef, sourcesRef, nAttempts, pc,
          outCtx, inCtx, stream, timer, session, clock, ctxSuspended,
          handlers, nMsgs, stopped, sched, epoch, lastOp>>
\* The variables the lifecycle and playback steps leave alone.
pureVars == <<video, allVideos, recs, codec>>
otherVars == <<queue, pureVars>>
vars == <<playerVars, otherVars>>

\* ------------------------------------------------------------- helpers
\* The lifecycle state the three flags encode (spec 4.4).
State == IF connected THEN "Active"
         ELSE IF isConnecting THEN "Connecting" ELSE "Idle"

\* close() / stop() / clearInterval() on an object.
Rel(s) == IF s = "live" THEN "released" ELSE "released2"

\* Released with the close() / stop() / clearInterval() call left out.
NotReleased(objs, ref) == objs

\* `if (ref.current) { ref.current.close(); ... }`: the object the ref holds
\* is released, whatever its state.
Released(objs, ref) == IF ref # 0 THEN [objs EXCEPT ![ref] = Rel(@)] ELSE objs

\* The history record of an operation.
Op(name, k, ranDisconnect, sess) ==
  [op |-> name, k |-> k, from |-> State, disc |-> ranDisconnect,
   rep |-> ranDisconnect /\ lastOp.disc, sess |-> sess]

Mounted ==
  /\ isSidebarOpen = FALSE
  /\ isConnecting = FALSE
  /\ connected = FALSE
  /\ micActive = FALSE
  /\ rendered = [connected |-> FALSE, isConnecting |-> FALSE]
  /\ mounted = TRUE
  /\ audioContextRef = 0
  /\ inputContextRef = 0
  /\ sessionRef = 0
  /\ streamRef = 0
  /\ videoIntervalRef = 0
  /\ nextStartTimeRef = 0
  /\ sourcesRef = {}
  /\ nAttempts = 0
  /\ pc = [k \in Attempts |-> "none"]
  /\ outCtx = [k \in Attempts |-> "none"]
  /\ inCtx = [k \in Attempts |-> "none"]
  /\ stream = [k \in Attempts |-> "none"]
  /\ timer = [k \in Attempts |-> "none"]
  /\ session = [k \in Attempts |-> "none"]
  /\ clock = 0
  /\ ctxSuspended = FALSE
  /\ handlers = {}
  /\ nMsgs = 0
  /\ stopped = {}
  /\ sched = <<>>
  /\ epoch = 0
  /\ lastOp = [op |-> "init", k |-> 0, from |-> "Idle", disc |-> FALSE,
               rep |-> FALSE, sess |-> "none"]
  /\ queue = [k \in Attempts |-> {}]

\* The runs that leave the recommendations, or the codec, aside.
NoScoring ==
  /\ video = [undefined |-> TRUE]
  /\ allVideos = <<>>
  /\ recs = [ready |-> FALSE]
NoCodec == codec = [stage |-> "none"]

Init == Mounted /\ NoScoring /\ NoCodec

\* ---------------------------------------------------------- disconnect()
\* ClearedRef with the `ref.current = null` assignment left out.
KeptRef(ref) == ref

\* The value disconnect() leaves in a ref it has handled.
ClearedRef(ref) == 0

\* disconnect(), lines 149-181, run on the refs and objects given (the state
\* at the moment it is called, which inside connect()'s catch is the state
\* after the assignments connect() has already made).
disconnect(acRef, icRef, stRef, viRef, oc, ic, st, tm) ==
  /\ sessionRef' = 0
  /\ timer' = Released(tm, viRef)
  /\ videoIntervalRef' = ClearedRef(viRef)
  /\ stopped' = stopped \cup sourcesRef
  /\ sourcesRef' = {}
  /\ outCtx' = Released(oc, acRef)
  /\ audioContextRef' = ClearedRef(acRef)
  /\ inCtx' = Released(ic, icRef)
  /\ inputContextRef' = ClearedRef(icRef)
  /\ stream' = Released(st, stRef)
  /\ streamRef' = ClearedRef(stRef)
  /\ connected' = FALSE
  /\ isConnecting' = FALSE
  /\ micActive' = FALSE

\* disconnect() called on the current state.
disconnectNow ==
  disconnect(audioContextRef, inputContextRef, streamRef, videoIntervalRef,
             outCtx, inCtx, stream, timer)

\* What disconnect() leaves alone besides the variables each caller sets.
disconnectFrame ==
  UNCHANGED <<nextStartTimeRef, nAttempts, clock, ctxSuspended, handlers,
              nMsgs, sched, epoch>>

NoFlags == [connected |-> FALSE, isConnecting |-> FALSE]

\* ------------------------------------------------------------- connect()
\* The guard of line 184. `connected` and `isConnecting` are the constants of
\* the render whose closure is called, not the latest values set.
ConnectGuard == rendered.connected \/ rendered.isConnecting

\* line 184 returns: nothing happens.
connectReturns ==
  /\ lastOp' = Op("connectNoop", 0, FALSE, "none")
  /\ UNCHANGED <<isConnecting, connected, micActive, rendered, refVars,
                 nextStartTimeRef, sourcesRef, nAttempts, pc, objVars, session,
                 playVars>>

\* Lines 185-196: the synchronous part of connect(), up to the await of
\* getUserMedia, as attempt k. `susp` is the state the new output context is
\* created in. Either it reaches the await, or a constructor throws before
\* the output context exists and the catch of lines 311-315 runs.
connect(k, susp) ==
  /\ nAttempts' = k
  /\ \/ /\ isConnecting' = TRUE
        /\ audioContextRef' = k
        /\ outCtx' = [outCtx EXCEPT ![k] = "live"]
        /\ nextStartTimeRef' = 0
        /\ clock' = 0
        /\ ctxSuspended' = susp
        /\ epoch' = epoch + 1
        /\ pc' = [pc EXCEPT ![k] = "awaitMic"]
        /\ rendered' = [rendered EXCEPT !.isConnecting = TRUE]
        /\ lastOp' = Op("connect", k, FALSE, "none")
        /\ UNCHANGED <<connected, micActive, inputContextRef, sessionRef,
                       streamRef, videoIntervalRef, sourcesRef, inCtx, stream,
                       timer, session, handlers, nMsgs, stopped, sched>>
     \/ /\ disconnectNow
        /\ pc' = [pc EXCEPT ![k] = "failed"]
        /\ rendered' = NoFlags
        /\ lastOp' = Op("connectThrow", k, TRUE, "none")
        /\ UNCHANGED <<nextStartTimeRef, clock, ctxSuspended, handlers, nMsgs,
                       sched, epoch, session>>

\* Lines 318-328, with React's synchronous re-render of the updates a click
\* handler makes: closing the panel disconnects, opening it connects.
toggleSidebarMode(limit, suspStates) ==
  /\ mounted
  /\ UNCHANGED mounted
  /\ IF isSidebarOpen
     THEN /\ disconnectNow
          /\ disconnectFrame
          /\ isSidebarOpen' = FALSE
          /\ rendered' = NoFlags
          /\ lastOp' = Op("disconnect", 0, TRUE, "none")
          /\ UNCHANGED <<pc, session>>
     ELSE /\ isSidebarOpen' = TRUE
          /\ IF ConnectGuard
             THEN connectReturns
             ELSE /\ nAttempts < limit
                  /\ \E susp \in suspStates : connect(nAttempts + 1, susp)
  /\ UNCHANGED otherVars

\* The "End Session" button, lines 458-464: onClick={disconnect}, enabled while
\* the rendered `connected` is true; it is part of the open companion panel.
endSession ==
  /\ mounted
  /\ isSidebarOpen
  /\ rendered.connected
  /\ disconnectNow
  /\ disconnectFrame
  /\ rendered' = NoFlags
  /\ lastOp' = Op("disconnect", 0, TRUE, "none")
  /\ UNCHANGED <<isSidebarOpen, mounted, pc, session>>
  /\ UNCHANGED otherVars

\* The effect cleanup of lines 143-147: the component unmounts.
unmount ==
  /\ mounted
  /\ mounted' = FALSE
  /\ disconnectNow
  /\ disconnectFrame
  /\ lastOp' = Op("unmount", 0, TRUE, "none")
  /\ UNCHANGED <<isSidebarOpen, rendered, pc, session>>
  /\ UNCHANGED otherVars

\* React commits a render of the updates made outside click handlers (in
\* promise continuations and session callbacks): new closures capture the
\* latest flags.
render ==
  /\ mounted
  /\ rendered # [connected |-> connected, isConnecting |-> isConnecting]
  /\ rendered' = [connected |-> connected, isConnecting |-> isConnecting]
  /\ UNCHANGED <<isSidebarOpen, flagVars, mounted, refVars, nextStartTimeRef,
                 sourcesRef, nAttempts, pc, objVars, session, playVars, lastOp>>
  /\ UNCHANGED otherVars

\* Lines 196-309: getUserMedia resolved and connect() of attempt k runs to
\* its end without looking at the flags or the refs: it stores the stream,
\* creates the input context, opens the remote session (not awaited) and
\* starts the frame interval. Or the input context cannot be created
\* (lines 198-203 throw) and the catch runs with the stream already stored.
getUserMediaResolved(k) ==
  /\ pc[k] = "awaitMic"
  /\ \/ /\ streamRef' = k
        /\ stream' = [stream EXCEPT ![k] = "live"]
        /\ inputContextRef' = k
        /\ inCtx' = [inCtx EXCEPT ![k] = "live"]
        /\ session' = [session EXCEPT ![k] = "pending"]
        /\ sessionRef' = k
        /\ videoIntervalRef' = k
        /\ timer' = [timer EXCEPT ![k] = "live"]
        /\ pc' = [pc EXCEPT ![k] = "done"]
        /\ lastOp' = Op("micGranted", k, FALSE, "none")
        /\ UNCHANGED <<isSidebarOpen, flagVars, rendered, mounted,
                       audioContextRef, nextStartTimeRef, sourcesRef, nAttempts,
                       outCtx, playVars>>
     \/ /\ disconnect(audioContextRef, inputContextRef, k, videoIntervalRef,
                      outCtx, inCtx, [stream EXCEPT ![k] = "live"], timer)
        /\ disconnectFrame
        /\ pc' = [pc EXCEPT ![k] = "failed"]
        /\ lastOp' = Op("setupThrow", k, TRUE, "none")
        /\ UNCHANGED <<isSidebarOpen, rendered, mounted, session>>
  /\ UNCHANGED otherVars

\* Line 196 rejects (permission refused): the catch of lines 311-315.
getUserMediaRejected(k) ==
  /\ pc[k] = "awaitMic"
  /\ disconnectNow
  /\ disconnectFrame
  /\ pc' = [pc EXCEPT ![k] = "failed"]
  /\ lastOp' = Op("micDenied", k, TRUE, "none")
  /\ UNCHANGED <<isSidebarOpen, rendered, mounted, session>>
  /\ UNCHANGED otherVars

\* ------------------------------------------------ remote session callbacks
\* disconnect() only drops the reference (lines 150-152): the remote session
\* of an attempt stays open and keeps calling back until the remote side
\* ends it.

\* Lines 215-220.
onopen(k) ==
  /\ session[k] = "pending"
  /\ session' = [session EXCEPT ![k] = "open"]
  /\ connected' = TRUE
  /\ isConnecting' = FALSE
  /\ micActive' = TRUE
  /\ lastOp' = Op("onopen", k, FALSE, "pending")
  /\ UNCHANGED <<isSidebarOpen, rendered, mounted, refVars, nextStartTimeRef,
                 sourcesRef, nAttempts, pc, objVars, playVars>>
  /\ UNCHANGED otherVars

\* Lines 264-266.
onclose(k) ==
  /\ session[k] \in {"pending", "open"}
  /\ session' = [session EXCEPT ![k] = "closed"]
  /\ disconnectNow
  /\ disconnectFrame
  /\ lastOp' = Op("onclose", k, TRUE, session[k])
  /\ UNCHANGED <<isSidebarOpen, rendered, mounted, pc>>
  /\ UNCHANGED otherVars

\* Lines 267-270; the session is over after an error.
onerror(k) ==
  /\ session[k] \in {"pending", "open"}
  /\ session' = [session EXCEPT ![k] = "closed"]
  /\ disconnectNow
  /\ disconnectFrame
  /\ lastOp' = Op("onerror", k, TRUE, session[k])
  /\ UNCHANGED <<isSidebarOpen, rendered, mounted, pc>>
  /\ UNCHANGED otherVars

\* The promise of ai.live.connect (line 205) rejects. It is not awaited and
\* has no rejection handler (lines 274, 279, 298), so no code runs.
sessionRejected(k) ==
  /\ session[k] = "pending"
  /\ session' = [session EXCEPT ![k] = "rejected"]
  /\ lastOp' = Op("reject", k, FALSE, "pending")
  /\ UNCHANGED <<isSidebarOpen, flagVars, rendered, mounted, refVars,
                 nextStartTimeRef, sourcesRef, nAttempts, pc, objVars, playVars>>
  /\ UNCHANGED otherVars

\* ------------------------------------------------------- media capture
\* Lines 284-307: the interval of attempt k fires captureFrame. It returns
\* early without the video or canvas element (always so after unmount) or
\* while the video has no dimensions ("skipped"). Otherwise it draws and
\* encodes the frame: getContext returns null, or drawImage / toDataURL
\* throws out of the interval callback ("failed"); toDataURL cannot
\* serialise the bitmap (no pixels: a video less than 4 pixels wide or high,
\* or an encoder failure) and returns "data:,", whose split(',')[1] is the
\* empty string ("empty"); or the frame is encoded ("frame"). Lines 298-305
\* hand whatever line 296 produced to sessionPromise.then.
Ticks == {"skipped", "failed", "empty", "frame"}
captured(q, k, outcome) ==
  IF outcome \in {"empty", "frame"}
  THEN [q EXCEPT ![k] = @ \cup {outcome}]
  ELSE q

captureFrame(k) ==
  /\ timer[k] = "live"
  /\ \E outcome \in (IF mounted THEN Ticks ELSE {"skipped"}) :
       /\ queue' = captured(queue, k, outcome)
       /\ lastOp' = Op("captureFrame", k, FALSE, outcome)
  /\ UNCHANGED <<isSidebarOpen, flagVars, rendered, mounted, refVars,
                 nextStartTimeRef, sourcesRef, nAttempts, pc, objVars, session,
                 playVars>>
  /\ UNCHANGED pureVars

\* Lines 276-282: the script processor of attempt k's input context delivers
\* a block of microphone samples; createBlob encodes it and the payload is
\* handed to sessionPromise.then (line 279).
onaudioprocess(k) ==
  /\ inCtx[k] = "live"
  /\ queue' = [queue EXCEPT ![k] = @ \cup {"audio"}]
  /\ lastOp' = Op("onaudioprocess", k, FALSE, "audio")
  /\ UNCHANGED <<isSidebarOpen, flagVars, rendered, mounted, refVars,
                 nextStartTimeRef, sourcesRef, nAttempts, pc, objVars, session,
                 playVars>>
  /\ UNCHANGED pureVars

\* Lines 279-281 and 298-305: the promise of attempt k's session has resolved
\* and a then-callback sends its payload with session.sendRealtimeInput.
sendRealtimeInput(k, kind) ==
  /\ session[k] = "open"
  /\ kind \in queue[k]
  /\ queue' = [queue EXCEPT ![k] = @ \ {kind}]
  /\ lastOp' = Op("send", k, FALSE, kind)
  /\ UNCHANGED <<isSidebarOpen, flagVars, rendered, mounted, refVars,
                 nextStartTimeRef, sourcesRef, nAttempts, pc, objVars, session,
                 playVars>>
  /\ UNCHANGED pureVars

\* ------------------------------------------------------ playback scheduler
Max(a, b) == IF a >= b THEN a ELSE b

\* The audio a message carries: 0 = none, -1 = a payload whose byte length is
\* odd (new Int16Array throws, line 57), d > 0 = a chunk lasting d ticks.
Audio == {-1} \cup (0..MaxDur)

\* StartTime with the clock left out: the cursor alone.
StartTimeNoClock(cursor, currentTime) == cursor

\* StartTime with the cursor left out: the clock alone.
StartTimeClockOnly(cursor, currentTime) == currentTime

\* Line 241.
StartTime(cursor, currentTime) == Max(cursor, currentTime)

\* Line 243.
NextStart(startTime, duration) == startTime + duration

\* CanSchedule with the decode always succeeding.
CanScheduleAny(k, a) == audioContextRef = k

\* Lines 229-238 succeed for a message of session k: the payload decodes, the
\* output context ref is not null, and the source, created on the context the
\* ref holds, connects to outputNode, a node of attempt k's own context
\* (connecting nodes of two contexts throws).
CanSchedule(k, a) == a > 0 /\ audioContextRef = k

\* Tracked with the add left out.
Untracked(sources, m) == sources

\* Line 248: sourcesRef.current.add(source).
Tracked(sources, m) == sources \cup {m}

\* Lines 229-262, from the decode on, for message m of session k: the chunk is
\* scheduled or the catch of line 253 drops it, then the interruption flag is
\* handled. Line 261 reads currentTime of a null ref after the set was
\* cleared: the assignment throws and the cursor keeps its value.
process(m, k, a, intr) ==
  LET can == CanSchedule(k, a)
      start == StartTime(nextStartTimeRef, clock)
      cursor1 == IF can THEN NextStart(start, a) ELSE nextStartTimeRef
      sources1 == IF can THEN Tracked(sourcesRef, m) ELSE sourcesRef
      sched1 == IF can
                THEN Append(sched, [m |-> m, k |-> k, start |-> start,
                                    dur |-> a, clock |-> clock,
                                    cursor |-> nextStartTimeRef,
                                    end |-> cursor1, epoch |-> epoch])
                ELSE sched
  IN /\ sched' = sched1
     /\ IF intr
        THEN /\ stopped' = stopped \cup sources1
             /\ sourcesRef' = {}
             /\ nextStartTimeRef' = IF audioContextRef # 0 THEN clock ELSE cursor1
             /\ epoch' = epoch + 1
        ELSE /\ stopped' = stopped
             /\ sourcesRef' = sources1
             /\ nextStartTimeRef' = cursor1
             /\ epoch' = epoch

\* How a handler run ends: "open" when the message carried no interruption
\* flag, "interrupted" when lines 259-261 ran through, "threw" when line 261
\* read currentTime of a null ref (TypeError, the promise of the handler
\* rejects).
Outcome(intr) ==
  IF ~intr THEN "open"
  ELSE IF audioContextRef # 0 THEN "interrupted" ELSE "threw"

\* "malformed" when the payload had an odd byte length and the catch of line
\* 253 logged the RangeError of line 57, with no interruption flag to handle.
Handled(a, intr) == IF a = -1 /\ ~intr THEN "malformed" ELSE Outcome(intr)

\* Lines 221-263: the remote session of attempt k delivers a message. A
\* handler with audio that finds the output context suspended waits at
\* `await resume()` (line 226); otherwise it runs to its end (the await of
\* decodeAudioData yields only to microtasks).
deliver(k, limit, audios, flags) ==
  /\ session[k] = "open"
  /\ nMsgs < limit
  /\ nMsgs' = nMsgs + 1
  /\ \E a \in audios, intr \in flags :
       /\ a # 0 \/ intr
       /\ IF a # 0 /\ audioContextRef # 0 /\ ctxSuspended
          THEN /\ handlers' = handlers \cup
                    {[m |-> nMsgs + 1, k |-> k, a |-> a, intr |-> intr,
                      epoch |-> epoch]}
               /\ UNCHANGED <<nextStartTimeRef, sourcesRef, stopped, sched,
                              epoch>>
          ELSE /\ process(nMsgs + 1, k, a, intr)
               /\ UNCHANGED handlers
       /\ lastOp' = Op("message", k, FALSE,
                        IF a # 0 /\ audioContextRef # 0 /\ ctxSuspended
                        THEN "waiting" ELSE Handled(a, intr))
  /\ UNCHANGED <<isSidebarOpen, flagVars, rendered, mounted, refVars, nAttempts,
                 pc, objVars, session, clock, ctxSuspended>>
  /\ UNCHANGED otherVars

onmessage(k) == deliver(k, MaxMsgs, Audio, BOOLEAN)

\* The resume() a handler waits for settles: the context runs again if it is
\* still the one in the ref, and the oldest waiting handler goes on from
\* line 229 (promises of one context settle in the order they were made).
resumed(h) ==
  /\ h \in handlers
  /\ \A g \in handlers : g.m >= h.m
  /\ handlers' = handlers \ {h}
  /\ ctxSuspended' = FALSE
  /\ process(h.m, h.k, h.a, h.intr)
  /\ lastOp' = Op("resumed", h.k, FALSE, Handled(h.a, h.intr))
  /\ UNCHANGED <<isSidebarOpen, flagVars, rendered, mounted, refVars, nAttempts,
                 pc, objVars, session, clock, nMsgs>>
  /\ UNCHANGED otherVars

\* The output context's clock advances while the context runs.
tick ==
  /\ audioContextRef # 0
  /\ ~ctxSuspended
  /\ clock < MaxClock
  /\ clock' = clock + 1
  /\ UNCHANGED <<isSidebarOpen, flagVars, rendered, mounted, refVars,
                 nextStartTimeRef, sourcesRef, nAttempts, pc, objVars, session,
                 ctxSuspended, handlers, nMsgs, stopped, sched, epoch, lastOp>>
  /\ UNCHANGED otherVars

\* Lines 245-247: a scheduled source has played to its end.
onended(i) ==
  /\ i \in 1..Len(sched)
  /\ sched[i].m \in sourcesRef
  /\ audioContextRef = sched[i].k
  /\ clock >= sched[i].end
  /\ sourcesRef' = sourcesRef \ {sched[i].m}
  /\ UNCHANGED <<isSidebarOpen, flagVars, rendered, mounted, refVars,
                 nextStartTimeRef, nAttempts, pc, objVars, session, playVars,
                 lastOp>>
  /\ UNCHANGED otherVars

\* ------------------------------------------------------- recommendations
\* Texts are sequences of one-character strings.
UpperCase == <<"A", "B", "C", "D", "E", "F", "G", "H", "I", "J", "K", "L", "M",
               "N", "O", "P", "Q", "R", "S", "T", "U", "V", "W", "X", "Y", "Z">>
LowerCase == <<"a", "b", "c", "d", "e", "f", "g", "h", "i", "j", "k", "l", "m",
               "n", "o", "p", "q", "r", "s", "t", "u", "v", "w", "x", "y", "z">>
Digits == {"0", "1", "2", "3", "4", "5", "6", "7", "8", "9"}
Range(f) == {f[i] : i \in DOMAIN f}

\* String.prototype.toLowerCase on one character (line 76).
toLowerCase(c) ==
  IF c \in Range(UpperCase)
  THEN LowerCase[CHOOSE i \in DOMAIN UpperCase : UpperCase[i] = c]
  ELSE c

\* The classes \w and \s of the regular expressions of lines 77-78.
IsWordChar(c) ==
  c \in Range(UpperCase) \cup Range(LowerCase) \cup Digits \cup {"_"}
IsSpace(c) == c \in {" ", "\t", "\n"}

\* split(/\s+/) (line 78): the pieces between the runs of whitespace, with an
\* empty piece before a leading run and after a trailing one.
RECURSIVE splitFrom(_, _, _, _)
splitFrom(text, i, piece, inRun) ==
  IF i > Len(text) THEN <<piece>>
  ELSE IF IsSpace(text[i])
       THEN IF inRun THEN splitFrom(text, i + 1, piece, TRUE)
            ELSE <<piece>> \o splitFrom(text, i + 1, <<>>, TRUE)
       ELSE splitFrom(text, i + 1, Append(piece, text[i]), FALSE)
split(text) == splitFrom(text, 1, <<>>, FALSE)

\* The stop list of line 81.
StopList == {<<"w", "i", "t", "h">>, <<"t", "h", "i", "s">>,
             <<"t", "h", "a", "t">>, <<"f", "r", "o", "m">>,
             <<"i", "n", "t", "o">>}
MinTokenLen == 3

\* Lines 74-82.
tokenize(text) ==
  LET lower == [i \in 1..Len(text) |-> toLowerCase(text[i])]
      IsKept(c) == IsWordChar(c) \/ IsSpace(c)
      stripped == SelectSeq(lower, IsKept)
      IsToken(w) == Len(w) > MinTokenLen /\ w \notin StopList
  IN SelectSeq(split(stripped), IsToken)

\* title.split(' ')[0] (line 93): the text before the first space.
RECURSIVE firstWordFrom(_, _)
firstWordFrom(title, i) ==
  IF i > Len(title) \/ title[i] = " " THEN <<>>
  ELSE <<title[i]>> \o firstWordFrom(title, i + 1)
\* firstWord with the whole title compared.
wholeTitle(title) == title

firstWord(title) == firstWordFrom(title, 1)

\* countMatches over the distinct candidate tokens only.
countDistinct(currentTokens, candidateTokens) ==
  Cardinality(currentTokens \cap Range(candidateTokens))

\* Lines 89-92: one match for every candidate token, repeated ones included,
\* that the set of the current item's tokens has.
countMatches(currentTokens, candidateTokens) ==
  Cardinality({i \in DOMAIN candidateTokens :
                 candidateTokens[i] \in currentTokens})

FirstWordBonus == 2

\* Lines 72-97.
calculateRelevance(current, candidate) ==
  IF current.id = candidate.id THEN -1
  ELSE LET currentTokens ==
             Range(tokenize(current.title \o <<" ">> \o current.description))
           candidateTokens ==
             tokenize(candidate.title \o <<" ">> \o candidate.description)
           matches == countMatches(currentTokens, candidateTokens)
       IN IF firstWord(current.title) = firstWord(candidate.title)
          THEN matches + FirstWordBonus
          ELSE matches

\* keeps with the filter left out.
keepsAll(v, current) == TRUE

\* Line 132: the filter keeps the items whose id is not the current one's.
keeps(v, current) == v.id # current.id

\* compare with the operands swapped: ascending scores.
compareAscending(a, b) == a - b

\* Line 134: the comparator, on the scores of two entries.
compare(a, b) == b - a

\* Array.prototype.sort (line 134) is stable: entries the comparator does not
\* put before an earlier one stay behind it. The entries are positions of
\* allVideos, score[i] the score of position i.
insert(sorted, x, score) ==
  LET ahead == Cardinality({p \in DOMAIN sorted :
                              compare(score[sorted[p]], score[x]) <= 0})
  IN SubSeq(sorted, 1, ahead) \o <<x>> \o SubSeq(sorted, ahead + 1, Len(sorted))
RECURSIVE sort(_, _)
sort(entries, score) ==
  IF entries = <<>> THEN <<>>
  ELSE insert(sort(SubSeq(entries, 1, Len(entries) - 1), score),
              entries[Len(entries)], score)

\* sorted[0] of an empty array.
undefined == [undefined |-> TRUE]
NoRecs == [ready |-> FALSE, upNext |-> undefined, moreVideos |-> <<>>,
           order |-> <<>>]

\* Lines 130-140: the recommendations of `current` over `catalog`; order is
\* the ranking as positions of the catalog.
recommend(current, catalog) ==
  LET IsKept(i) == keeps(catalog[i], current)
      positions == [i \in 1..Len(catalog) |-> i]
      score == [i \in 1..Len(catalog) |->
                  calculateRelevance(current, catalog[i])]
      sorted == sort(SelectSeq(positions, IsKept), score)
  IN [ready |-> TRUE,
      upNext |-> IF sorted = <<>> THEN undefined ELSE catalog[sorted[1]],
      moreVideos |-> [p \in 1..(Len(sorted) - 1) |-> catalog[sorted[p + 1]]],
      order |-> sorted]

\* The catalogs of the scoring runs are made of these items.
\* {id: 1, title: "Neon Drift", description: "a racer chases a thief"}
Item1 ==
  [id |-> 1,
   title |-> <<"N", "e", "o", "n", " ", "D", "r", "i", "f", "t">>,
   description |->
     <<"a", " ", "r", "a", "c", "e", "r", " ", "c", "h", "a", "s", "e",
       "s", " ", "a", " ", "t", "h", "i", "e", "f">>]
\* {id: 2, title: "Neon Pulse", description: "a detective chases a racer"}
Item2 ==
  [id |-> 2,
   title |-> <<"N", "e", "o", "n", " ", "P", "u", "l", "s", "e">>,
   description |->
     <<"a", " ", "d", "e", "t", "e", "c", "t", "i", "v", "e", " ", "c",
       "h", "a", "s", "e", "s", " ", "a", " ", "r", "a", "c", "e", "r">>]
\* {id: 3, title: "Quiet Garden", description: "a calm afternoon"}
Item3 ==
  [id |-> 3,
   title |-> <<"Q", "u", "i", "e", "t", " ", "G", "a", "r", "d", "e", "n">>,
   description |->
     <<"a", " ", "c", "a", "l", "m", " ", "a", "f", "t", "e", "r", "n",
       "o", "o", "n">>]
\* {id: 4, title: "neon racer racer", description: "Racer, with a thief!"}:
\* a lower-case first word, a repeated word, punctuation and a stop word.
Item4 ==
  [id |-> 4,
   title |-> <<"n", "e", "o", "n", " ", "r", "a", "c", "e", "r", " ", "r", "a",
              "c", "e", "r">>,
   description |->
     <<"R", "a", "c", "e", "r", ",", " ", "w", "i", "t", "h", " ", "a",
       " ", "t", "h", "i", "e", "f", "!">>]
\* {id: 1, title: "Neon-Drift  pulse", description: ""}: the id of Item1
\* with another text, a hyphen, two spaces and an empty description.
Item5 ==
  [id |-> 1,
   title |-> <<"N", "e", "o", "n", "-", "D", "r", "i", "f", "t", " ", " ", "p",
              "u", "l", "s", "e">>,
   description |->
     <<>>]

Pool == {Item1, Item2, Item3, Item4, Item5}
RECURSIVE SeqsUpTo(_, _)
SeqsUpTo(S, n) ==
  IF n = 0 THEN {<<>>}
  ELSE LET shorter == SeqsUpTo(S, n - 1)
       IN shorter \cup {Append(q, x) : q \in shorter, x \in S}
Catalogs == SeqsUpTo(Pool, MaxCatalog)

\* The component renders `video` with the catalog `allVideos` (props, lines
\* 103-104).
InitScore ==
  /\ Mounted
  /\ NoCodec
  /\ video \in Pool
  /\ allVideos \in Catalogs
  /\ recs = NoRecs

\* Lines 130-140: the memo is computed during render.
useMemo ==
  /\ ~recs.ready
  /\ recs' = recommend(video, allVideos)
  /\ UNCHANGED <<playerVars, queue, video, allVideos, codec>>

\* App.tsx lines 26-28 and 84-91: a catalog item is picked and the player is
\* rendered anew for it.
handlePlayVideo(i) ==
  /\ recs.ready
  /\ i \in DOMAIN allVideos
  /\ allVideos[i] # video
  /\ video' = allVideos[i]
  /\ recs' = NoRecs
  /\ UNCHANGED <<playerVars, queue, allVideos, codec>>

NextScore ==
  \/ useMemo
  \/ \E i \in 1..MaxCatalog : handlePlayVideo(i)

SpecScore == InitScore /\ [][NextScore]_vars

\* ------------------------------------------------------------ audio codec
\* A sample is held as the integer sample * 32768: the claims are about
\* samples that are exact multiples of 1/32768, and on those the products and
\* quotients of lines 31 and 64 are exact in floating point.
Scale == 32768
Int16Span == 65536
ByteSpan == 256

\* The store into an Int16Array element (line 31): ToInt16 keeps the value
\* modulo 2^16, in -32768..32767.
ToInt16(n) == ((n + Scale) % Int16Span) - Scale

\* new Uint8Array(int16.buffer) (line 33): the two bytes of each element, low
\* byte first.
RECURSIVE bytesOf(_)
bytesOf(int16) ==
  IF int16 = <<>> THEN <<>>
  ELSE LET u == int16[1] % Int16Span
       IN <<u % ByteSpan, u \div ByteSpan>> \o bytesOf(Tail(int16))

\* btoa (line 34) on the binary string whose character codes are the bytes:
\* every three bytes give four 6-bit digits; Pad stands for '='.
Pad == 64
RECURSIVE btoa(_)
btoa(b) ==
  IF b = <<>> THEN <<>>
  ELSE IF Len(b) = 1
       THEN <<b[1] \div 4, (b[1] % 4) * 16, Pad, Pad>>
  ELSE IF Len(b) = 2
       THEN <<b[1] \div 4, (b[1] % 4) * 16 + b[2] \div 16, (b[2] % 16) * 4,
              Pad>>
  ELSE <<b[1] \div 4, (b[1] % 4) * 16 + b[2] \div 16,
         (b[2] % 16) * 4 + b[3] \div 64, b[3] % 64>>
       \o btoa(SubSeq(b, 4, Len(b)))

\* Lines 27-39: the `data` field of the blob.
createBlob(data) ==
  btoa(bytesOf([i \in 1..Len(data) |-> ToInt16(data[i])]))

\* atob (line 42): every four digits give up to three bytes.
RECURSIVE atob(_)
atob(d) ==
  IF Len(d) < 4 THEN <<>>
  ELSE LET b1 == d[1] * 4 + d[2] \div 16
           b2 == (d[2] % 16) * 16 + d[3] \div 4
           b3 == (d[3] % 4) * 64 + d[4]
       IN (IF d[3] = Pad THEN <<b1>>
           ELSE IF d[4] = Pad THEN <<b1, b2>>
           ELSE <<b1, b2, b3>>)
          \o atob(SubSeq(d, 5, Len(d)))

\* Lines 41-49: the character codes of atob's binary string.
decode(base64) == atob(base64)

\* new Int16Array(data.buffer) (line 57): pairs of bytes, low byte first, read
\* as signed 16-bit integers.
Int16Array(bytes) ==
  [i \in 1..(Len(bytes) \div 2) |->
     LET u == bytes[2 * i - 1] + ByteSpan * bytes[2 * i]
     IN IF u >= Scale THEN u - Int16Span ELSE u]

\* Lines 51-68: the channels of the buffer; element / 32768 is the sample the
\* integer stands for.
decodeAudioData(bytes, numChannels) ==
  LET dataInt16 == Int16Array(bytes)
      frameCount == Len(dataInt16) \div numChannels
  IN [channel \in 1..numChannels |->
        [i \in 1..frameCount |->
           dataInt16[(i - 1) * numChannels + channel]]]

\* The blocks of the codec runs: up to MaxSamples samples in [-1, 1], multiples
\* of 1/32768, the two ends of the range among them.
SampleValues == {-Scale, -(ByteSpan + 1), -1, 0, 1, ByteSpan - 1, Scale - 1, Scale}
Blocks == SeqsUpTo(SampleValues, MaxSamples)

InitCodec ==
  /\ Mounted
  /\ NoScoring
  /\ \E data \in Blocks :
       codec = [stage |-> "samples", data |-> data, base64 |-> <<>>,
                bytes |-> <<>>, channelData |-> <<>>]

\* Line 278: a block of samples is encoded.
encodeBlock ==
  /\ codec.stage = "samples"
  /\ codec' = [codec EXCEPT !.stage = "encoded",
                            !.base64 = createBlob(codec.data)]
  /\ UNCHANGED <<playerVars, queue, video, allVideos, recs>>

\* Line 230, first half: decode(base64Audio).
decodeBlock ==
  /\ codec.stage = "encoded"
  /\ codec' = [codec EXCEPT !.stage = "decoded",
                            !.bytes = decode(codec.base64)]
  /\ UNCHANGED <<playerVars, queue, video, allVideos, recs>>

\* Lines 229-234: decodeAudioData(bytes, ctx, 24000, 1).
bufferBlock ==
  /\ codec.stage = "decoded"
  /\ codec' = [codec EXCEPT !.stage = "buffered",
                            !.channelData = decodeAudioData(codec.bytes, 1)[1]]
  /\ UNCHANGED <<playerVars, queue, video, allVideos, recs>>

NextCodec == encodeBlock \/ decodeBlock \/ bufferBlock

SpecCodec == InitCodec /\ [][NextCodec]_vars

\* ------------------------------------------------------- specifications
Next ==
  \/ toggleSidebarMode(MaxConnects, {FALSE})
  \/ endSession
  \/ unmount
  \/ render
  \/ \E k \in Attempts : getUserMediaResolved(k)
  \/ \E k \in Attempts : getUserMediaRejected(k)
  \/ \E k \in Attempts : onopen(k)
  \/ \E k \in Attempts : onclose(k)
  \/ \E k \in Attempts : onerror(k)
  \/ \E k \in Attempts : sessionRejected(k)

Spec == Init /\ [][Next]_vars

\* The playback runs: the lifecycle of one connect() attempt with the messages
\* of its session; the output context starts running or suspended.
NextPlay ==
  \/ toggleSidebarMode(1, BOOLEAN)
  \/ render
  \/ \E k \in Attempts : getUserMediaResolved(k)
  \/ \E k \in Attempts : onopen(k)
  \/ \E k \in Attempts : onclose(k)
  \/ \E k \in Attempts : onmessage(k)
  \/ \E h \in handlers : resumed(h)
  \/ tick
  \/ \E i \in Msgs : onended(i)

SpecPlay == Init /\ [][NextPlay]_vars

\* The ordering runs: one connect() attempt whose output context starts
\* running or suspended, and a session that delivers plain audio chunks of one
\* tick, one message more than MaxMsgs (two handlers waiting at resume() and
\* a message arriving between their resumptions).
OrderMsgs == MaxMsgs + 1

NextOrder ==
  \/ toggleSidebarMode(1, BOOLEAN)
  \/ \E k \in Attempts : getUserMediaResolved(k)
  \/ \E k \in Attempts : onopen(k)
  \/ \E k \in Attempts : deliver(k, OrderMsgs, {1}, {FALSE})
  \/ \E h \in handlers : resumed(h)
  \/ tick

SpecOrder == Init /\ [][NextOrder]_vars

\* The media runs: the lifecycle of one connect() attempt with the frame
\* interval, the microphone processor and the sends queued on the session
\* promise.
Payloads == {"frame", "empty", "audio"}

NextMedia ==
  \/ toggleSidebarMode(1, {FALSE})
  \/ endSession
  \/ unmount
  \/ render
  \/ \E k \in Attempts : getUserMediaResolved(k)
  \/ \E k \in Attempts : onopen(k)
  \/ \E k \in Attempts : onclose(k)
  \/ \E k \in Attempts : captureFrame(k)
  \/ \E k \in Attempts : onaudioprocess(k)
  \/ \E k \in Attempts, kind \in Payloads : sendRealtimeInput(k, kind)

SpecMedia == Init /\ [][NextMedia]_vars

\* ------------------------------------------------------------ properties
LiveSet(objs) == {k \in Attempts : objs[k] = "live"}
LiveSessions == {k \in Attempts : session[k] \in {"pending", "open"}}
InFlight == {k \in Attempts : pc[k] = "awaitMic"}
NoLiveResource ==
  /\ LiveSet(outCtx) = {}
  /\ LiveSet(inCtx) = {}
  /\ LiveSet(stream) = {}
  /\ LiveSet(timer) = {}
NoDoubleRelease ==
  \A k \in Attempts :
    "released2" \notin {outCtx[k], inCtx[k], stream[k], timer[k]}
RefsCleared ==
  /\ audioContextRef = 0
  /\ inputContextRef = 0
  /\ sessionRef = 0
  /\ streamRef = 0
  /\ videoIntervalRef = 0

\* C1: at any time at most one microphone stream, one input context, one
\* output context, one frame timer and one remote session are live.
C1_AtMostOneSession ==
  /\ Cardinality(LiveSet(stream)) <= 1
  /\ Cardinality(LiveSet(inCtx)) <= 1
  /\ Cardinality(LiveSet(outCtx)) <= 1
  /\ Cardinality(LiveSet(timer)) <= 1
  /\ Cardinality(LiveSessions) <= 1

\* C2: no object is released twice, and in Idle with no connect() in flight
\* nothing a connect() attempt acquired is still live.
C2_ReleasedExactlyOnce ==
  /\ NoDoubleRelease
  /\ (State = "Idle" /\ InFlight = {}) => NoLiveResource

\* C3: after any run of disconnect() the state is Idle, the microphone flag is
\* false and every ref is null; nothing is ever released twice; and a
\* disconnect() that directly follows another changes no object, ref or flag.
C3_DisconnectIdempotent ==
  /\ [](lastOp.disc =>
         State = "Idle" /\ ~micActive /\ RefsCleared /\ sourcesRef = {})
  /\ []NoDoubleRelease
  /\ [][(lastOp'.rep /\ lastOp'.op # "setupThrow") =>
          UNCHANGED <<refVars, objVars, flagVars, sourcesRef>>]_vars

\* C3 witness: disconnect() was called right after another disconnect(), and
\* an attempt had acquired and released all its objects before.
C3_Witness ==
  /\ lastOp.op = "disconnect"
  /\ lastOp.rep
  /\ \E k \in Attempts :
       {outCtx[k], inCtx[k], stream[k], timer[k]} = {"released"}

\* C4: after disconnect() called in Active there are no active sources, no
\* live timer, no open audio context and no live microphone track.
C4_CleanupComplete ==
  (lastOp.op = "disconnect" /\ lastOp.from = "Active") =>
    sourcesRef = {} /\ NoLiveResource

\* C5: a connect() that gets past its guard was issued in Idle (issued in
\* Connecting or Active it is a no-op).
C5_ConnectGuarded ==
  lastOp.op \in {"connect", "connectThrow"} => lastOp.from = "Idle"

\* C6: after microphone permission is refused to an attempt the state is Idle,
\* the connecting flag is false, the attempt's output context is closed, it
\* has no stream, input context, timer or remote session, and it is over.
C6_PermissionDenied ==
  lastOp.op = "micDenied" =>
    /\ State = "Idle"
    /\ ~isConnecting
    /\ outCtx[lastOp.k] = "released"
    /\ stream[lastOp.k] = "none"
    /\ inCtx[lastOp.k] = "none"
    /\ timer[lastOp.k] = "none"
    /\ session[lastOp.k] = "none"
    /\ pc[lastOp.k] = "failed"

\* C6 witness: permission was refused to an attempt that was still the
\* connect in progress.
C6_Witness ==
  /\ lastOp.op = "micDenied"
  /\ lastOp.from = "Connecting"

\* C7: when the remote session of an attempt fails before its open
\* acknowledgment (rejected promise, error or close callback), the state is
\* Idle and nothing the attempt acquired is live.
C7_NegotiationFailure ==
  (lastOp.op \in {"reject", "onerror", "onclose"} /\ lastOp.sess = "pending") =>
    /\ State = "Idle"
    /\ "live" \notin {outCtx[lastOp.k], inCtx[lastOp.k], stream[lastOp.k],
                      timer[lastOp.k]}

\* C8: after a close or error callback received in Active the state is Idle,
\* every ref is null and no resource is live.
C8_RemoteCloseTearsDown ==
  (lastOp.op \in {"onclose", "onerror"} /\ lastOp.from = "Active") =>
    State = "Idle" /\ RefsCleared /\ NoLiveResource

\* C9: once the component is unmounted and no connect() of it is in flight,
\* no microphone stream, audio context or frame timer it acquired is live.
C9_UnmountReleases ==
  (~mounted /\ InFlight = {}) => NoLiveResource

\* C10: every chunk scheduled starts at max(cursor, clock) and moves the cursor
\* to start + duration; of two chunks scheduled one after the other with no
\* cursor reset (connect, interruption) between them, the second starts no
\* earlier than the first ends and no earlier than the clock, and exactly
\* where the first ends when the first had not finished at that time.
C10_SchedulerMonotone ==
  /\ \A i \in 1..Len(sched) :
       /\ sched[i].start = Max(sched[i].cursor, sched[i].clock)
       /\ sched[i].end = sched[i].start + sched[i].dur
       /\ sched[i].start >= sched[i].clock
  /\ \A i \in 1..(Len(sched) - 1) :
       sched[i + 1].epoch = sched[i].epoch =>
         /\ sched[i + 1].start >= sched[i].start + sched[i].dur
         /\ sched[i].end >= sched[i + 1].clock =>
              sched[i + 1].start = sched[i].end
  /\ (sched # <<>> /\ sched[Len(sched)].epoch = epoch) =>
       nextStartTimeRef = sched[Len(sched)].end

\* C10 witness: two chunks of one session; the first arrived after the clock
\* had passed the cursor and starts at the clock, the second arrived while the
\* first was still playing and starts where the first ends.
C10_Witness ==
  /\ Len(sched) = 2
  /\ sched[1].epoch = sched[2].epoch
  /\ sched[1].clock > sched[1].cursor
  /\ sched[1].start = sched[1].clock
  /\ sched[2].clock > sched[1].start
  /\ sched[2].clock < sched[1].end
  /\ sched[2].start = sched[1].end

\* C11 as stated: across the whole lifetime of a session, interruption signals
\* included, the scheduling cursor never decreases and no chunk is scheduled
\* to start before the end of a chunk scheduled before it.
C11_CursorNeverDecreases ==
  /\ [][nextStartTimeRef' >= nextStartTimeRef]_vars
  /\ [](\A i, j \in 1..Len(sched) :
          i < j => sched[j].start >= sched[i].end)

\* C11 amended: the cursor never decreases except in the step that resets it
\* (an interruption signal sets it to the output clock, connect() to the new
\* context's clock), and of two chunks scheduled with no reset between them
\* the later one starts no earlier than the earlier one ends.
C11_CursorMonotoneBetweenResets ==
  /\ [][epoch' = epoch => nextStartTimeRef' >= nextStartTimeRef]_vars
  /\ [][(epoch' # epoch /\ lastOp'.sess = "interrupted") =>
          nextStartTimeRef' = clock']_vars
  /\ [](\A i, j \in 1..Len(sched) :
          (i < j /\ sched[i].epoch = sched[j].epoch) =>
            sched[j].start >= sched[i].end)

\* C11 witness: a chunk was scheduled, an interruption signal moved the cursor
\* back to the clock, and the next chunk starts before the end the first
\* chunk was scheduled to have.
C11_Witness ==
  \E i \in 1..(Len(sched) - 1) :
    /\ sched[i].epoch < sched[i + 1].epoch
    /\ sched[i].m \in stopped
    /\ sched[i + 1].cursor < sched[i].end
    /\ sched[i + 1].start < sched[i].end

\* C12: when the handler of a message with the interruption flag has run in
\* state Active, every source that was in the active-sources set is
\* force-stopped, the set is empty and the cursor equals the output clock (so
\* the next chunk, starting at max(cursor, clock), starts no earlier than the
\* clock at the interruption); the handler does not end in an error.
C12_InterruptionHandled ==
  [][(/\ epoch' # epoch
      /\ lastOp'.op \in {"message", "resumed"}
      /\ lastOp'.from = "Active") =>
       /\ lastOp'.sess = "interrupted"
       /\ sourcesRef \subseteq stopped'
       /\ sourcesRef' = {}
       /\ nextStartTimeRef' = clock']_vars

\* C13: chunks are scheduled in arrival order: of two chunks of one session,
\* the one whose message arrived first starts no later than the other,
\* whatever the interleaving of the handlers at their awaits.
C13_ArrivalOrder ==
  \A i, j \in 1..Len(sched) :
    (sched[i].k = sched[j].k /\ sched[i].m < sched[j].m) =>
      sched[i].start <= sched[j].start

\* C14: video frames are captured and forwarded only while the state is
\* Active: every frame captureFrame hands over is captured in state Active,
\* no frame waits to be sent in another state, and a frame is sent only in
\* state Active over the session the component holds (not after
\* disconnect()).
C14_FramesOnlyWhileActive ==
  /\ (lastOp.op = "captureFrame" /\ lastOp.sess = "frame") =>
       lastOp.from = "Active"
  /\ (\E k \in Attempts : "frame" \in queue[k]) => State = "Active"
  /\ (lastOp.op = "send" /\ lastOp.sess = "frame") =>
       (lastOp.from = "Active" /\ sessionRef = lastOp.k)

\* C15: the microphone is used only while the state is Active: in every
\* other state no microphone track is live, no microphone payload is taken or
\* waits to be sent, and a payload is sent only in state Active over the
\* session the component holds (not after disconnect()).
C15_MicrophoneOnlyWhileActive ==
  /\ State # "Active" => LiveSet(stream) = {}
  /\ lastOp.op = "onaudioprocess" => lastOp.from = "Active"
  /\ (\E k \in Attempts : "audio" \in queue[k]) => State = "Active"
  /\ (lastOp.op = "send" /\ lastOp.sess = "audio") =>
       (lastOp.from = "Active" /\ sessionRef = lastOp.k)

\* C16: the score of an item against an item of the same id (itself
\* included) is -1, and the recommendations over a catalog that holds nothing
\* but the item played have no upNext and no moreVideos.
C16_IdentityExcluded ==
  /\ \A x \in Pool : calculateRelevance(x, x) = -1
  /\ \A i \in DOMAIN allVideos :
       allVideos[i].id = video.id =>
         calculateRelevance(video, allVideos[i]) = -1
  /\ (recs.ready /\ \A i \in DOMAIN allVideos : allVideos[i] = video) =>
       (recs.upNext = undefined /\ recs.moreVideos = <<>>)

\* C16 witness: the memo was computed over a catalog whose only item is the
\* item played.
C16_Witness ==
  /\ recs.ready
  /\ allVideos = <<video>>
  /\ recs.upNext = undefined

\* C17: the ranking holds exactly the catalog positions whose id differs from
\* the id of the item played, each once, by descending score and, among equal
\* scores, in catalog order; upNext is the first item of the ranking and
\* moreVideos the others in order. Over the catalog <<Item1, Item2, Item3>>
\* with Item1 played, upNext is Item2 and moreVideos is <<Item3>>.
C17_SelectRanks ==
  recs.ready =>
    LET order == recs.order
        score(i) == calculateRelevance(video, allVideos[i])
    IN /\ Range(order) = {i \in DOMAIN allVideos : allVideos[i].id # video.id}
       /\ \A p, q \in DOMAIN order : p # q => order[p] # order[q]
       /\ \A p, q \in DOMAIN order :
            p < q => \/ score(order[p]) > score(order[q])
                     \/ /\ score(order[p]) = score(order[q])
                        /\ order[p] < order[q]
       /\ recs.upNext = IF order = <<>> THEN undefined
                        ELSE allVideos[order[1]]
       /\ recs.moreVideos =
            [p \in 1..(Len(order) - 1) |-> allVideos[order[p + 1]]]
       /\ (video = Item1 /\ allVideos = <<Item1, Item2, Item3>>) =>
            (recs.upNext = Item2 /\ recs.moreVideos = <<Item3>>)

\* C17 witness: a ranking of three different items, the first with a higher
\* score than the other two, which tie and keep their catalog order although
\* an item ranked before them comes later in the catalog.
C17_Witness ==
  /\ recs.ready
  /\ Len(recs.order) = 3
  /\ recs.order[1] > recs.order[2]
  /\ recs.order[2] < recs.order[3]
  /\ calculateRelevance(video, recs.upNext) >
       calculateRelevance(video, recs.moreVideos[1])
  /\ calculateRelevance(video, recs.moreVideos[1]) =
       calculateRelevance(video, recs.moreVideos[2])
  /\ recs.moreVideos[1] # recs.moreVideos[2]

\* The occurrences of tokens in x that repeat an earlier token of x and are
\* tokens of y too.
Repeats(x, y) ==
  LET tx == tokenize(x.title \o <<" ">> \o x.description)
      ty == tokenize(y.title \o <<" ">> \o y.description)
  IN Cardinality({i \in DOMAIN tx :
                    /\ tx[i] \in Range(ty)
                    /\ \E j \in 1..(i - 1) : tx[j] = tx[i]})

\* C18: the score is not symmetric: for two items of different ids the two
\* directions differ by the repeated occurrences of shared tokens (counted
\* for the candidate, collapsed for the current item), and for the pair
\* Item1, Item4 the two scores are different.
C18_ScoreNotSymmetric ==
  \A i \in DOMAIN allVideos :
    LET c == allVideos[i]
    IN (recs.ready /\ c.id # video.id) =>
         /\ calculateRelevance(video, c) - calculateRelevance(c, video) =
              Repeats(c, video) - Repeats(video, c)
         /\ (video = Item1 /\ c = Item4) =>
              calculateRelevance(video, c) # calculateRelevance(c, video)

\* C18 witness: the memo ranked a candidate that repeats a token of the item
\* played, and its score exceeds the score in the other direction.
C18_Witness ==
  /\ recs.ready
  /\ recs.upNext # undefined
  /\ LET tokens == tokenize(recs.upNext.title \o <<" ">> \o
                            recs.upNext.description)
     IN \E i, j \in DOMAIN tokens : i # j /\ tokens[i] = tokens[j]
  /\ calculateRelevance(video, recs.upNext) >
       calculateRelevance(recs.upNext, video)

\* C19: a block of samples in [-1, 1] that are multiples of 1/32768 comes
\* back unchanged from createBlob, decode and decodeAudioData with one
\* channel.
C19_CodecRoundTrip ==
  codec.stage = "buffered" => codec.channelData = codec.data

\* C20: a connect() that resumes from `await getUserMedia` after disconnect()
\* ran during the wait (the state it resumes in is Idle) has no effect: it
\* stores no microphone stream, creates no input context, opens no remote
\* session and starts no frame timer, and the state is still Idle.
C20_CancelledConnectHasNoEffect ==
  (lastOp.op = "micGranted" /\ lastOp.from = "Idle") =>
    /\ stream[lastOp.k] = "none"
    /\ streamRef = 0
    /\ inCtx[lastOp.k] = "none"
    /\ session[lastOp.k] = "none"
    /\ timer[lastOp.k] = "none"
    /\ State = "Idle"

\* C21: the state becomes Active only from Connecting: an onopen delivered in
\* state Idle leaves the state Idle, and whenever the state is Active the
\* microphone stream, both audio contexts and the frame timer are held and
\* live.
C21_ActiveOnlyFromConnecting ==
  /\ (lastOp.op = "onopen" /\ lastOp.from = "Idle") => State = "Idle"
  /\ State = "Active" =>
       /\ streamRef # 0 /\ stream[streamRef] = "live"
       /\ audioContextRef # 0 /\ outCtx[audioContextRef] = "live"
       /\ inputContextRef # 0 /\ inCtx[inputContextRef] = "live"
       /\ videoIntervalRef # 0 /\ timer[videoIntervalRef] = "live"

\* C22: after disconnect() (the output context ref is null) the handling of a
\* message, newly delivered or resumed from its await, schedules no source,
\* leaves the active-sources set and the cursor alone and raises no error.
C22_NoEffectAfterDisconnect ==
  [][(/\ nMsgs' # nMsgs \/ handlers' # handlers
      /\ lastOp'.op \in {"message", "resumed"}
      /\ audioContextRef = 0) =>
       /\ UNCHANGED <<sched, sourcesRef, nextStartTimeRef>>
       /\ lastOp'.sess # "threw"]_vars

\* C23: a callback (open, close, error) of a session that disconnect() has
\* already torn down does not touch a session held for a later connect():
\* the flags, the refs and the objects stay as they are.
C23_StaleCallbacksIgnored ==
  [][\A k \in Attempts :
       (/\ session[k] \in {"pending", "open"}
        /\ stream[k] \in {"released", "released2"}
        /\ sessionRef > k
        /\ session'[k] # session[k]
        /\ lastOp'.op \in {"onopen", "onclose", "onerror"}) =>
         UNCHANGED <<flagVars, refVars, objVars>>]_vars

\* C24: a chunk whose message arrived before an interruption signal is not
\* started after it: a handler that was waiting at its await when the
\* interruption was processed schedules nothing when it goes on.
C24_NoChunkAfterInterruption ==
  [][\A h \in handlers :
       (h \notin handlers' /\ h.epoch < epoch) => sched' = sched]_vars

\* C25: a malformed audio chunk (odd byte length) is dropped: handling it
\* schedules no source and leaves the cursor, the active-sources set, the
\* flags, the refs and the objects as they are; no scheduled chunk is a
\* malformed one, and every scheduled chunk starts at max(cursor, clock).
C25_MalformedChunkDropped ==
  /\ [][(/\ nMsgs' # nMsgs \/ handlers' # handlers
         /\ lastOp'.op \in {"message", "resumed"}
         /\ lastOp'.sess = "malformed") =>
          UNCHANGED <<sched, sourcesRef, nextStartTimeRef, stopped, flagVars,
                      refVars, objVars, session>>]_vars
  /\ [](\A i \in 1..Len(sched) :
          /\ sched[i].dur > 0
          /\ sched[i].start = Max(sched[i].cursor, sched[i].clock)
          /\ sched[i].end = sched[i].start + sched[i].dur)

\* C25 witness: an Active session that never lost its output context and saw
\* no interruption received two messages; the first, malformed, scheduled
\* nothing and the second was scheduled at max(cursor, clock).
C25_Witness ==
  /\ State = "Active"
  /\ audioContextRef # 0
  /\ epoch = 1
  /\ nMsgs = 2
  /\ handlers = {}
  /\ Len(sched) = 1
  /\ sched[1].m = 2
  /\ sched[1].start = sched[1].clock
  /\ sched[1].clock > 0

\* C26: the active-sources set holds exactly the sources scheduled on the
\* output context currently held that have neither ended nor been
\* force-stopped: a source enters the set when it is scheduled, leaves it only
\* when its playback has ended or it is stopped, and the set is empty after an
\* interruption and after disconnect().
C26_ActiveSources ==
  /\ [](sourcesRef \cap stopped = {})
  /\ [](\A m \in sourcesRef :
          \E i \in 1..Len(sched) :
            sched[i].m = m /\ sched[i].k = audioContextRef)
  /\ [](audioContextRef = 0 => sourcesRef = {})
  /\ [][sched' # sched =>
          LET new == sched'[Len(sched')].m
          IN \/ new \in sourcesRef'
             \/ new \in stopped' /\ epoch' # epoch]_vars
  /\ [][\A m \in sourcesRef \ sourcesRef' :
          \/ m \in stopped'
          \/ \E i \in 1..Len(sched) :
               sched[i].m = m /\ clock >= sched[i].end]_vars
  /\ [][(epoch' # epoch /\ lastOp'.sess \in {"interrupted", "threw"}) =>
          sourcesRef' = {}]_vars
  /\ [][lastOp'.disc /\ lastOp' # lastOp => sourcesRef' = {}]_vars

\* C26 witness: of two chunks scheduled in one session the first has played
\* to its end and left the set, the second is still in it.
C26_Witness ==
  /\ Len(sched) = 2
  /\ sched[1].m \notin sourcesRef
  /\ sched[1].m \notin stopped
  /\ sched[2].m \in sourcesRef
  /\ clock >= sched[1].end
  /\ clock < sched[2].end

\* C27: a frame tick on which the video has no dimensions or the capture
\* fails sends nothing and changes no session state: no payload is queued,
\* the flags, refs, objects (the timer among them) and sessions stay as they
\* are.
C27_FailedTickSkipped ==
  [][(/\ lastOp'.op = "captureFrame"
      /\ lastOp'.sess \in {"skipped", "failed", "empty"}
      /\ lastOp' # lastOp \/ queue' # queue) =>
       UNCHANGED <<queue, flagVars, refVars, objVars, session>>]_vars

\* The number of positions of the candidate's token list whose token is one
\* of the reference item's tokens, by induction on the list.
RECURSIVE Hits(_, _)
Hits(tokens, reference) ==
  IF tokens = <<>> THEN 0
  ELSE Hits(Tail(tokens), reference) +
       (IF \E j \in DOMAIN reference : reference[j] = Head(tokens)
        THEN 1 ELSE 0)

\* The two raw titles have the same text before their first space.
SameFirstWord(x, y) ==
  LET End(t) == IF \E i \in DOMAIN t : t[i] = " "
                THEN (CHOOSE i \in DOMAIN t :
                        /\ t[i] = " "
                        /\ \A j \in 1..(i - 1) : t[j] # " ") - 1
                ELSE Len(t)
  IN SubSeq(x, 1, End(x)) = SubSeq(y, 1, End(y))

\* C28: for a catalog item whose id differs from the id of the item played,
\* the score is the number of the candidate's tokens, repeated ones counted,
\* that are tokens of the item played, plus 2 when the two raw titles have
\* the same first space-delimited word, case included; it is not negative,
\* and no ranked item has the score -1.
C28_ScoreIsMatchesPlusBonus ==
  recs.ready =>
    /\ \A i \in DOMAIN allVideos :
         LET c == allVideos[i]
             reference == tokenize(video.title \o <<" ">> \o video.description)
             candidate == tokenize(c.title \o <<" ">> \o c.description)
         IN c.id # video.id =>
              /\ calculateRelevance(video, c) =
                   Hits(candidate, reference) +
                   (IF SameFirstWord(video.title, c.title) THEN 2 ELSE 0)
              /\ calculateRelevance(video, c) >= 0
    /\ \A p \in DOMAIN recs.order :
         calculateRelevance(video, allVideos[recs.order[p]]) # -1

\* C28 witness: the memo ranked, for one item played, a candidate with the
\* same first word that scores its shared tokens plus 2, a candidate whose
\* first word differs by case only and that scores its shared tokens with a
\* repeated one counted three times, and a candidate that scores 0.
C28_Witness ==
  /\ recs.ready
  /\ video = Item1
  /\ allVideos = <<Item3, Item4, Item2>>
  /\ recs.order = <<2, 3, 1>>
  /\ calculateRelevance(video, Item2) = 3 + FirstWordBonus
  /\ calculateRelevance(video, Item4) = 5
  /\ calculateRelevance(video, Item3) = 0

\* C29: the connection flags are consistent in every state: isConnecting and
\* connected are never both true, and micActive is true only while connected
\* is true.
C29_FlagsConsistent ==
  /\ ~(isConnecting /\ connected)
  /\ micActive => connected

====
